---- MODULE Spec2Model ----
(***************************************************************************)
(* A model of the CA Portfolio API (src/main.py): the admin authorization  *)
(* gate verify_admin, the validation checks of the handlers, and the       *)
(* handlers' calls to the external identity verifier, database tables and  *)
(* object storage.                                                         *)
(*                                                                         *)
(* Strings the code splits and lower-cases (the Authorization header) are  *)
(* sequences of one-character strings.  Dicts (JSON bodies, database rows) *)
(* are functions from keys to values.  The external services are modelled  *)
(* by their state (tables, buckets) and by the list of calls each request  *)
(* issues.  Every handler but update_dashboard issues at most one call     *)
(* that reads or writes shared state, so it is one atomic action;          *)
(* update_dashboard reads the row and writes it back in two steps, and     *)
(* FastAPI runs it on a thread pool, so two of them can interleave.        *)
(* The routes / and /sections write nothing and take no input; they are    *)
(* left out.                                                               *)
(***************************************************************************)
EXTENDS Naturals, Integers, Sequences, FiniteSets, TLC

(***************************************************************************)
(* Bounds of the model.                                                    *)
(***************************************************************************)
MaxHeaderChunks == 4   \* an Authorization header is up to this many chunks
MaxEntries == 1        \* create_entry succeeds at most this many times
MaxBodyKeys == 2       \* keys of a dashboard body in SpecDash

(***************************************************************************)
(* Constants of the program.                                               *)
(***************************************************************************)
ALLOWED_SECTIONS ==
    {"dashboard", "models", "valuations", "research", "presentations", "contact"}

ALLOWED_MIME_TYPES ==
    {"application/pdf",
     "application/vnd.ms-excel",
     "application/vnd.openxmlformats-officedocument.spreadsheetml.sheet",
     "application/vnd.ms-powerpoint",
     "application/vnd.openxmlformats-officedocument.presentationml.presentation",
     "image/jpeg", "image/png", "image/webp"}

MAX_FILE_SIZE_MB == 20

\* the allow-list of update_dashboard
allowed ==
    {"name", "title", "photo_url", "metrics", "growth", "growth_years", "practice_mix"}

(***************************************************************************)
(* Strings as character sequences.                                         *)
(***************************************************************************)
Whitespace == {" ", "\t"}

\* str.lower() on one character, for the letters the inputs contain
LowerChar(c) ==
    CASE c = "A" -> "a" [] c = "B" -> "b" [] c = "C" -> "c" [] c = "E" -> "e"
      [] c = "I" -> "i" [] c = "R" -> "r" [] c = "S" -> "s" [] c = "T" -> "t"
      [] c = "X" -> "x" [] OTHER -> c

\* str.lower()
lower(s) == [i \in 1..Len(s) |-> LowerChar(s[i])]

\* str.split() without arguments: the maximal runs of non-whitespace
RECURSIVE SplitFrom(_, _, _, _)
SplitFrom(s, i, cur, acc) ==
    IF i > Len(s)
    THEN IF cur = <<>> THEN acc ELSE Append(acc, cur)
    ELSE IF s[i] \in Whitespace
         THEN SplitFrom(s, i + 1, <<>>, IF cur = <<>> THEN acc ELSE Append(acc, cur))
         ELSE SplitFrom(s, i + 1, Append(cur, s[i]), acc)

split(s) == SplitFrom(s, 1, <<>>, <<>>)

bearer == <<"b", "e", "a", "r", "e", "r">>

(***************************************************************************)
(* The identity verifier (firebase auth.verify_id_token): two tokens it    *)
(* accepts, for two users, and every other string it rejects by raising.   *)
(***************************************************************************)
TokA == <<"t", "A">>
TokB == <<"t", "B">>
TokX == <<"t", "X">>
UIDs == {"uid-A", "uid-B"}
InvalidToken == [uid |-> "<raised>"]
NoUser == [uid |-> "<none>"]

verify_id_token(token) ==
    IF token = TokA THEN [uid |-> "uid-A"]
    ELSE IF token = TokB THEN [uid |-> "uid-B"]
    ELSE InvalidToken

(***************************************************************************)
(* State.                                                                  *)
(***************************************************************************)
VARIABLES
    ADMIN_UIDS,     \* the allow-list read from the environment at start
    entries,        \* table "entries": a set of rows
    nextId,         \* the next fresh uuid4 of create_entry
    dashboard,      \* table "dashboard": the row with id 1, or NoRow
    storage,        \* the objects uploaded to the storage buckets
    pc,             \* per worker: "idle", or "write" inside update_dashboard
    authorization,  \* per worker: the header of the request in update_dashboard
    user,           \* per worker: what Depends(verify_admin) returned
    data,           \* per worker: the body of the request in update_dashboard
    existing,       \* per worker: the row update_dashboard read
    calls,          \* per worker: the external calls the request has issued
    last            \* the request answered last: what it was, its response,
                    \* the external calls it issued

vars == <<ADMIN_UIDS, entries, nextId, dashboard, storage, pc, authorization,
          user, data, existing, calls, last>>

Procs == {"r1", "r2"}


(***************************************************************************)
(* AUTH: verify_admin, and the dependency Depends(verify_admin) with its   *)
(* required header parameter.  A gate result is the identity returned or   *)
(* the status of the HTTPException, with the external calls issued.        *)
(***************************************************************************)
Unauthorized(cs) == [ok |-> FALSE, status |-> 401, user |-> NoUser, calls |-> cs]

\* verify_admin without the ADMIN_UIDS membership test
verify_admin_any_uid(hdr) ==
    LET parts == split(hdr) IN
    IF Len(parts) # 2 THEN Unauthorized(<<>>)
    ELSE IF lower(parts[1]) # bearer THEN Unauthorized(<<>>)
    ELSE LET decoded == verify_id_token(parts[2]) IN
         IF decoded = InvalidToken THEN Unauthorized(<<"verify_id_token">>)
         ELSE [ok |-> TRUE, status |-> 200, user |-> decoded,
               calls |-> <<"verify_id_token">>]

\* verify_admin comparing the scheme without lower()
verify_admin_case_sensitive(hdr) ==
    LET parts == split(hdr) IN
    IF Len(parts) # 2 THEN Unauthorized(<<>>)
    ELSE IF parts[1] # <<"B", "e", "a", "r", "e", "r">> THEN Unauthorized(<<>>)
    ELSE LET decoded == verify_id_token(parts[2]) IN
         IF decoded = InvalidToken THEN Unauthorized(<<"verify_id_token">>)
         ELSE IF decoded.uid \notin ADMIN_UIDS THEN Unauthorized(<<"verify_id_token">>)
         ELSE [ok |-> TRUE, status |-> 200, user |-> decoded,
               calls |-> <<"verify_id_token">>]

verify_admin(hdr) ==
    LET parts == split(hdr) IN
    IF Len(parts) # 2 THEN Unauthorized(<<>>)          \* ValueError of the unpacking
    ELSE IF lower(parts[1]) # bearer THEN Unauthorized(<<>>)
    ELSE LET decoded == verify_id_token(parts[2]) IN
         IF decoded = InvalidToken THEN Unauthorized(<<"verify_id_token">>)
         ELSE IF decoded.uid \notin ADMIN_UIDS THEN Unauthorized(<<"verify_id_token">>)
         ELSE [ok |-> TRUE, status |-> 200, user |-> decoded,
               calls |-> <<"verify_id_token">>]

\* a request without the Authorization header
NoHeader == <<"<no header>">>

\* Depends(verify_admin): the parameter is Header(...), a required header, so
\* a request without it is answered 422 and verify_admin does not run
Depends_verify_admin(hdr) ==
    IF hdr = NoHeader
    THEN [ok |-> FALSE, status |-> 422, user |-> NoUser, calls |-> <<>>]
    ELSE verify_admin(hdr)

(***************************************************************************)
(* The validation checks of the handlers.                                  *)
(***************************************************************************)
\* the section check passing every section
InvalidSection_none(section) == FALSE

InvalidSection(section) == section \notin ALLOWED_SECTIONS

InvalidFileType(content_type) == content_type \notin ALLOWED_MIME_TYPES

\* the size check with >= for >
FileTooLarge_ge(size) == size >= MAX_FILE_SIZE_MB * 1024 * 1024

FileTooLarge(size) == size > MAX_FILE_SIZE_MB * 1024 * 1024

(***************************************************************************)
(* The dashboard row and the merge of update_dashboard.                    *)
(***************************************************************************)
NoRow == [id |-> "<no row>"]

InitialRow ==
    [id |-> "1", name |-> "x", title |-> "x", photo_url |-> "x", metrics |-> "x",
     growth |-> "x", growth_years |-> "x", practice_mix |-> "x", updated_at |-> "t0"]

\* datetime.utcnow().isoformat(): the clock is read, not kept
Times == {"t1", "t2"}

\* the payload with every submitted key merged, allow-listed or not
Payload_all_keys(row, body, now) ==
    [f \in DOMAIN row \cup {"updated_at"} |->
        IF f = "updated_at" THEN now
        ELSE IF f \in DOMAIN body THEN body[f]
        ELSE row[f]]

\* the payload with the timestamp stored under "title"
Payload_stamp_title(row, body, now) ==
    [f \in DOMAIN row \cup {"title"} |->
        IF f = "title" THEN now
        ELSE IF f \in allowed /\ f \in DOMAIN body THEN body[f]
        ELSE row[f]]

\* the payload with only the submitted allow-listed keys, not {**existing}
Payload_patch(row, body, now) ==
    [f \in (allowed \cap DOMAIN body) \cup {"updated_at"} |->
        IF f = "updated_at" THEN now ELSE body[f]]

\* payload = {**existing}; payload[k] = data[k] for k in allowed if k in data;
\* payload["updated_at"] = now
Payload(row, body, now) ==
    [f \in DOMAIN row \cup (allowed \cap DOMAIN body) \cup {"updated_at"} |->
        IF f = "updated_at" THEN now
        ELSE IF f \in allowed /\ f \in DOMAIN body THEN body[f]
        ELSE row[f]]

\* table("dashboard").update(payload).eq("id", 1): the columns of the payload
\* are set in the row with id 1, if there is one
UpdateRow(row, payload) ==
    IF row = NoRow THEN NoRow
    ELSE [f \in DOMAIN row |-> IF f \in DOMAIN payload THEN payload[f] ELSE row[f]]

(***************************************************************************)
(* Responses.  last records the request answered last.                     *)
(***************************************************************************)
NoArgs == [none |-> TRUE]

Respond(route, hdr, args, status, cs, u) ==
    last' = [route |-> route, authorization |-> hdr, args |-> args,
             status |-> status, calls |-> cs, user |-> u]

Idle == [p \in Procs |-> "idle"]
NoData == [k \in {} |-> ""]

Init ==
    /\ ADMIN_UIDS \in (SUBSET UIDs) \ {{}}
    /\ entries = {}
    /\ nextId = 1
    /\ dashboard \in {NoRow, InitialRow}
    /\ storage = {}
    /\ pc = Idle
    /\ authorization = [p \in Procs |-> NoHeader]
    /\ user = [p \in Procs |-> NoUser]
    /\ data = [p \in Procs |-> NoData]
    /\ existing = [p \in Procs |-> NoRow]
    /\ calls = [p \in Procs |-> <<>>]
    /\ last = [route |-> "none", authorization |-> NoHeader, args |-> NoArgs,
               status |-> 0, calls |-> <<>>, user |-> NoUser]

workers == <<pc, authorization, user, data, existing, calls>>
tables == <<entries, nextId, dashboard, storage>>

(***************************************************************************)
(* PUBLIC                                                                  *)
(***************************************************************************)
get_dashboard ==
    /\ Respond("get_dashboard", NoHeader, NoArgs,
               IF dashboard = NoRow THEN 404 ELSE 200, <<"dashboard.select">>, NoUser)
    /\ UNCHANGED <<ADMIN_UIDS, tables, workers>>

get_entries(section) ==
    /\ IF InvalidSection(section)
       THEN Respond("get_entries", NoHeader, [section |-> section], 404, <<>>, NoUser)
       ELSE Respond("get_entries", NoHeader, [section |-> section], 200,
                    <<"entries.select">>, NoUser)
    /\ UNCHANGED <<ADMIN_UIDS, tables, workers>>

(***************************************************************************)
(* FILE UPLOAD.  The file is its declared content type and its length.     *)
(***************************************************************************)
upload_file(hdr, section, content_type, size) ==
    LET gate == Depends_verify_admin(hdr)
        args == [section |-> section, content_type |-> content_type, size |-> size]
        Reject(status) == /\ Respond("upload_file", hdr, args, status, gate.calls, gate.user)
                          /\ storage' = storage
    IN
    /\ IF ~gate.ok THEN Reject(gate.status)
       ELSE IF InvalidSection(section) THEN Reject(400)
       ELSE IF InvalidFileType(content_type) THEN Reject(400)
       ELSE IF FileTooLarge(size) THEN Reject(400)
       ELSE /\ storage' = storage \cup
                    {[bucket |-> section, content_type |-> content_type, size |-> size]}
            /\ Respond("upload_file", hdr, args, 200,
                       gate.calls \o <<"storage.upload", "storage.get_public_url">>,
                       gate.user)
    /\ UNCHANGED <<ADMIN_UIDS, entries, nextId, dashboard, workers>>

(***************************************************************************)
(* ADMIN - DASHBOARD UPDATE                                                *)
(***************************************************************************)
\* update_dashboard inserting a row when none is found
update_dashboard_read_upsert(p, hdr, body) ==
    LET gate == Depends_verify_admin(hdr) IN
    /\ pc[p] = "idle"
    /\ IF ~gate.ok
       THEN /\ Respond("update_dashboard", hdr, [data |-> body], gate.status,
                       gate.calls, gate.user)
            /\ UNCHANGED <<workers, dashboard>>
       ELSE IF dashboard = NoRow
       THEN /\ \E now \in Times : dashboard' = Payload(InitialRow, body, now)
            /\ Respond("update_dashboard", hdr, [data |-> body], 200,
                       gate.calls \o <<"dashboard.select", "dashboard.update">>, gate.user)
            /\ UNCHANGED workers
       ELSE /\ pc' = [pc EXCEPT ![p] = "write"]
            /\ authorization' = [authorization EXCEPT ![p] = hdr]
            /\ user' = [user EXCEPT ![p] = gate.user]
            /\ data' = [data EXCEPT ![p] = body]
            /\ existing' = [existing EXCEPT ![p] = dashboard]
            /\ calls' = [calls EXCEPT ![p] = gate.calls \o <<"dashboard.select">>]
            /\ UNCHANGED <<last, dashboard>>
    /\ UNCHANGED <<ADMIN_UIDS, entries, nextId, storage>>

\* the gate, the select of the row with id 1, and the check that it exists
update_dashboard_read(p, hdr, body) ==
    LET gate == Depends_verify_admin(hdr) IN
    /\ pc[p] = "idle"
    /\ IF ~gate.ok
       THEN /\ Respond("update_dashboard", hdr, [data |-> body], gate.status,
                       gate.calls, gate.user)
            /\ UNCHANGED workers
       ELSE IF dashboard = NoRow     \* not existing
       THEN /\ Respond("update_dashboard", hdr, [data |-> body], 400,
                       gate.calls \o <<"dashboard.select">>, gate.user)
            /\ UNCHANGED workers
       ELSE /\ pc' = [pc EXCEPT ![p] = "write"]
            /\ authorization' = [authorization EXCEPT ![p] = hdr]
            /\ user' = [user EXCEPT ![p] = gate.user]
            /\ data' = [data EXCEPT ![p] = body]
            /\ existing' = [existing EXCEPT ![p] = dashboard]
            /\ calls' = [calls EXCEPT ![p] = gate.calls \o <<"dashboard.select">>]
            /\ UNCHANGED last
    /\ UNCHANGED <<ADMIN_UIDS, tables>>

\* the merge, the timestamp and the update of the row with id 1; now is what
\* datetime.utcnow().isoformat() returns
update_dashboard_write(p, now) ==
    /\ pc[p] = "write"
    /\ dashboard' = UpdateRow(dashboard, Payload(existing[p], data[p], now))
    /\ Respond("update_dashboard", authorization[p],
               [data |-> data[p],
                \* for the record: a column another request changed since this
                \* one read the row, and this one did not submit, went back
                lost |-> \E f \in DOMAIN dashboard \ (DOMAIN data[p] \cup {"updated_at"}) :
                            /\ dashboard[f] # existing[p][f]
                            /\ dashboard'[f] = existing[p][f],
                \* for the record: the request answered before this one wrote
                \* the same body, and this one read the row that one wrote
                again |-> /\ last.route = "update_dashboard"
                          /\ last.status = 200
                          /\ last.args.data = data[p]
                          /\ existing[p] = dashboard],
               200, calls[p] \o <<"dashboard.update">>, user[p])
    /\ pc' = [pc EXCEPT ![p] = "idle"]
    /\ authorization' = [authorization EXCEPT ![p] = NoHeader]
    /\ user' = [user EXCEPT ![p] = NoUser]
    /\ data' = [data EXCEPT ![p] = NoData]
    /\ existing' = [existing EXCEPT ![p] = NoRow]
    /\ calls' = [calls EXCEPT ![p] = <<>>]
    /\ UNCHANGED <<ADMIN_UIDS, entries, nextId, storage>>

(***************************************************************************)
(* ADMIN - ENTRY.  A row of entries is its id and its section_key; the     *)
(* other columns are copies of body fields and the creation time.          *)
(***************************************************************************)
create_entry(hdr, body) ==
    LET gate == Depends_verify_admin(hdr) IN
    /\ IF ~gate.ok
       THEN /\ Respond("create_entry", hdr, [data |-> body], gate.status,
                       gate.calls, gate.user)
            /\ UNCHANGED <<entries, nextId>>
       ELSE IF "section_key" \notin DOMAIN body      \* KeyError of data["section_key"]
       THEN /\ Respond("create_entry", hdr, [data |-> body], 500, gate.calls, gate.user)
            /\ UNCHANGED <<entries, nextId>>
       ELSE /\ nextId <= MaxEntries
            /\ entries' = entries \cup {[id |-> nextId, section_key |-> body.section_key]}
            /\ nextId' = nextId + 1
            /\ Respond("create_entry", hdr, [data |-> body], 200,
                       gate.calls \o <<"entries.insert">>, gate.user)
    /\ UNCHANGED <<ADMIN_UIDS, dashboard, storage, workers>>

delete_entry(hdr, entry_id) ==
    LET gate == Depends_verify_admin(hdr) IN
    /\ IF ~gate.ok
       THEN /\ Respond("delete_entry", hdr, [entry_id |-> entry_id], gate.status,
                       gate.calls, gate.user)
            /\ UNCHANGED entries
       ELSE /\ entries' = {e \in entries : e.id # entry_id}
            /\ Respond("delete_entry", hdr, [entry_id |-> entry_id], 200,
                       gate.calls \o <<"entries.delete">>, gate.user)
    /\ UNCHANGED <<ADMIN_UIDS, nextId, dashboard, storage, workers>>

(***************************************************************************)
(* The requests the specifications draw from.                              *)
(***************************************************************************)
Sp == <<" ">>
Tab == <<"\t">>
Bearer == <<"B", "e", "a", "r", "e", "r">>
bEARER == <<"b", "E", "A", "R", "E", "R">>
Basic == <<"B", "a", "s", "i", "c">>
Chunks == {Sp, Tab, Bearer, bEARER, Basic, TokA, TokB, TokX}

RECURSIVE Flatten(_)
Flatten(cs) == IF cs = <<>> THEN <<>> ELSE Head(cs) \o Flatten(Tail(cs))

\* every header of up to MaxHeaderChunks chunks, and the absent header
Headers ==
    {Flatten(cs) : cs \in UNION {[1..k -> Chunks] : k \in 0..MaxHeaderChunks}}
GateHeaders == Headers \cup {NoHeader}

HeaderA == Bearer \o Sp \o TokA
HeaderB == Bearer \o Sp \o TokB
\* absent; an admin's or another user's token; a rejected token; another scheme
SampleHeaders == {NoHeader, HeaderA, HeaderB, Bearer \o Sp \o TokX, Basic \o Sp \o TokA}

MaxBytes == MAX_FILE_SIZE_MB * 1024 * 1024
SizeInputs == {1024, MaxBytes, MaxBytes + 1, 25 * 1024 * 1024}
EntryIds == 1..MaxEntries

\* the dicts with at most n of the keys, with values among vals
Bodies(keys, vals, n) ==
    UNION {[S -> vals] : S \in {T \in SUBSET keys : Cardinality(T) <= n}}

EntryBodies == Bodies({"section_key"}, {"models", "legal"}, 1)
DashBodies == Bodies({"name", "title", "id"}, {"y"}, MaxBodyKeys)

(***************************************************************************)
(* Spec: the server, every route, two workers.                             *)
(***************************************************************************)
Next ==
    \/ get_dashboard
    \/ \E section \in {"models", "legal"} : get_entries(section)
    \/ \E hdr \in SampleHeaders, section \in {"models", "legal"} :
          upload_file(hdr, section, "application/pdf", 1024)
    \/ \E hdr \in SampleHeaders, body \in EntryBodies : create_entry(hdr, body)
    \/ \E hdr \in SampleHeaders, entry_id \in EntryIds : delete_entry(hdr, entry_id)
    \/ \E p \in Procs, hdr \in SampleHeaders :
          update_dashboard_read(p, hdr, [name |-> "y"])
    \/ \E p \in Procs : update_dashboard_write(p, "t1")

Spec == Init /\ [][Next]_vars

(***************************************************************************)
(* SpecGate: one request to an admin route, with any Authorization header. *)
(***************************************************************************)
Fresh == last.route = "none" /\ pc = Idle

NextGate ==
    \/ Fresh /\ \E hdr \in GateHeaders : delete_entry(hdr, 1)
    \/ Fresh /\ \E hdr \in GateHeaders : create_entry(hdr, [section_key |-> "models"])
    \/ Fresh /\ \E hdr \in GateHeaders : upload_file(hdr, "models", "application/pdf", 1024)
    \/ Fresh /\ \E hdr \in GateHeaders : update_dashboard_read("r1", hdr, [name |-> "y"])
    \/ update_dashboard_write("r1", "t1")

SpecGate == Init /\ [][NextGate]_vars

(***************************************************************************)
(* SpecUpload: the routes that take a section, with every kind of file.    *)
(***************************************************************************)
NextUpload ==
    \/ \E section \in {"models", "research", "legal", "Models"} : get_entries(section)
    \/ \E hdr \in SampleHeaders, section \in {"models", "legal"},
          content_type \in {"application/pdf", "image/png", "text/html"},
          size \in SizeInputs :
          upload_file(hdr, section, content_type, size)

SpecUpload == Init /\ [][NextUpload]_vars

(***************************************************************************)
(* SpecDash: concurrent dashboard updates.                                 *)
(***************************************************************************)
InitDash == Init /\ ADMIN_UIDS = {"uid-A"}

NextDash ==
    \/ \E p \in Procs, hdr \in {HeaderA, HeaderB}, body \in DashBodies :
          update_dashboard_read(p, hdr, body)
    \/ \E p \in Procs, now \in Times : update_dashboard_write(p, now)

SpecDash == InitDash /\ [][NextDash]_vars

(***************************************************************************)
(* The claims.                                                             *)
(***************************************************************************)
\* The indices at which a whitespace-separated part of h starts.
PartStarts(h) ==
    {i \in 1..Len(h) : h[i] \notin {" ", "\t"} /\ (i = 1 \/ h[i - 1] \in {" ", "\t"})}

\* The part of h that starts at i.
PartAt(h, i) ==
    SubSeq(h, i, CHOOSE j \in i..Len(h) :
                    /\ \A k \in i..j : h[k] \notin {" ", "\t"}
                    /\ j = Len(h) \/ h[j + 1] \in {" ", "\t"})

FirstPart(h) == PartAt(h, CHOOSE i \in PartStarts(h) : \A j \in PartStarts(h) : i <= j)
SecondPart(h) == PartAt(h, CHOOSE i \in PartStarts(h) : \A j \in PartStarts(h) : i >= j)

\* w is "bearer" up to the case of its letters.
IsBearer(w) ==
    /\ Len(w) = 6
    /\ w[1] \in {"b", "B"} /\ w[2] \in {"e", "E"} /\ w[3] \in {"a", "A"}
    /\ w[4] \in {"r", "R"} /\ w[5] \in {"e", "E"} /\ w[6] \in {"r", "R"}

\* The header is one the gate is to accept: two parts, the scheme Bearer, a
\* token the verifier accepts, for a user of the allow-list.
Accepted(h) ==
    /\ h # NoHeader
    /\ Cardinality(PartStarts(h)) = 2
    /\ IsBearer(FirstPart(h))
    /\ verify_id_token(SecondPart(h)) # InvalidToken
    /\ verify_id_token(SecondPart(h)).uid \in ADMIN_UIDS

Has(cs, names) == \E i \in 1..Len(cs) : cs[i] \in names

WriteCalls == {"entries.insert", "entries.delete", "dashboard.update", "storage.upload"}
StoreCalls ==
    WriteCalls \cup {"entries.select", "dashboard.select", "storage.get_public_url"}
AdminRoutes == {"upload_file", "update_dashboard", "create_entry", "delete_entry"}

\* C1: every external write was issued by a request whose header the gate was
\* to accept, after the verifier call of that request; an admin request whose
\* header is not such a header is answered 401 or 422 and has issued no
\* storage or database call; and the tables and the storage change only in a
\* step of a request with such a header.
C1_WritesBehindGate ==
    /\ [](/\ Has(last.calls, StoreCalls) /\ last.route \in AdminRoutes
             => /\ Accepted(last.authorization)
                /\ last.calls[1] = "verify_id_token"
          /\ \A p \in Procs : Has(calls[p], StoreCalls)
                => /\ Accepted(authorization[p])
                   /\ calls[p][1] = "verify_id_token"
                   /\ user[p].uid \in ADMIN_UIDS
          /\ last.route \in AdminRoutes /\ ~Accepted(last.authorization)
                => /\ last.status \in {401, 422}
                   /\ ~Has(last.calls, StoreCalls))
    /\ [][<<entries, dashboard, storage>>' # <<entries, dashboard, storage>>
            => /\ Accepted(last'.authorization)
               /\ Has(last'.calls, WriteCalls)]_vars

\* C1 witness: an admin's delete answered 200 after an upload, a dashboard
\* update and an insert have been made.
C1_Witness ==
    /\ last.route = "delete_entry" /\ last.status = 200
    /\ Has(last.calls, WriteCalls)
    /\ storage # {} /\ nextId > 1
    /\ dashboard # NoRow /\ dashboard.name = "y"

C3_AllFailures401 ==
    last.route \in AdminRoutes /\ ~Accepted(last.authorization) => last.status = 401

\* C4: every row of entries has a section_key of ALLOWED_SECTIONS.
C4_EntrySectionsAllowed ==
    \A e \in entries : e.section_key \in ALLOWED_SECTIONS

\* C5 as stated: a get_entries or upload_file request with a section outside
\* ALLOWED_SECTIONS is rejected with no external call made, the identity
\* verifier's included.
C5_RejectedBeforeAnyCall ==
    /\ last.route \in {"get_entries", "upload_file"}
    /\ last.args.section \notin ALLOWED_SECTIONS
    => last.status >= 400 /\ last.calls = <<>>

\* C5 as amended: such a request is rejected with no database or storage call
\* made; get_entries has made no external call at all, upload_file at most
\* the verifier call of its gate; no bucket outside ALLOWED_SECTIONS holds an
\* object.
C5_RejectedBeforeStoreCall ==
    /\ /\ last.route \in {"get_entries", "upload_file"}
       /\ last.args.section \notin ALLOWED_SECTIONS
       => /\ last.status \in {400, 401, 404, 422}
          /\ ~Has(last.calls, StoreCalls)
          /\ last.route = "get_entries" => last.calls = <<>>
          /\ last.route = "upload_file" => last.calls \in {<<>>, <<"verify_id_token">>}
    /\ \A o \in storage : o.bucket \in ALLOWED_SECTIONS

\* C5 witness: an admin's upload to the section legal is answered 400 with
\* the verifier call made.
C5_Witness ==
    /\ last.route = "upload_file"
    /\ last.args.section = "legal"
    /\ Accepted(last.authorization)
    /\ last.status = 400
    /\ last.calls = <<"verify_id_token">>

\* C6: an admin's upload to an allowed section with more than
\* MaxSizeMB x 1,048,576 bytes is answered 400 with no storage call, whatever
\* its MIME type; one of exactly that size with an allowed MIME type is
\* stored; no stored object is larger.
C6_OversizeRejected ==
    /\ /\ last.route = "upload_file"
       /\ Accepted(last.authorization)
       /\ last.args.section \in ALLOWED_SECTIONS
       => /\ last.args.size > MAX_FILE_SIZE_MB * 1048576
             => /\ last.status = 400
                /\ ~Has(last.calls, {"storage.upload", "storage.get_public_url"})
          /\ /\ last.args.size = MAX_FILE_SIZE_MB * 1048576
             /\ last.args.content_type \in ALLOWED_MIME_TYPES
             => /\ last.status = 200
                /\ Has(last.calls, {"storage.upload"})
                /\ \E o \in storage : o.size = last.args.size
    /\ \A o \in storage : o.size <= MAX_FILE_SIZE_MB * 1048576

\* C6 witness: a 25 MB PDF is answered 400 while an object of exactly the
\* limit is in the storage.
C6_Witness ==
    /\ last.route = "upload_file"
    /\ Accepted(last.authorization)
    /\ last.args = [section |-> "models", content_type |-> "application/pdf",
                    size |-> 25 * 1048576]
    /\ last.status = 400
    /\ \E o \in storage : o.size = MAX_FILE_SIZE_MB * 1048576

\* the step in which worker p's update_dashboard writes and answers
Writes(p) == pc[p] = "write" /\ pc'[p] = "idle"

\* C7: the write of an update leaves the row with the columns of the row it
\* read; each column but updated_at has the submitted value if it is one of
\* the seven allow-listed fields and the body has it, and else the value of
\* the row read, id and the other fields the body names included; updated_at
\* is the time of the write; entries is left unchanged.
C7_MergeFrame ==
    [][\A p \in Procs : Writes(p) =>
          /\ last'.status = 200
          /\ DOMAIN dashboard' = DOMAIN existing[p]
          /\ \A f \in DOMAIN existing[p] \ {"updated_at"} :
                dashboard'[f] =
                    IF /\ f \in {"name", "title", "photo_url", "metrics", "growth",
                                 "growth_years", "practice_mix"}
                       /\ f \in DOMAIN data[p]
                    THEN data[p][f]
                    ELSE existing[p][f]
          /\ dashboard'.updated_at \in Times
          /\ entries' = entries /\ nextId' = nextId]_vars

\* C7 witness: a body with name and id was written: name changed, id and
\* title did not.
C7_Witness ==
    /\ last.route = "update_dashboard" /\ last.status = 200
    /\ last.args.data = [name |-> "y", id |-> "y"]
    /\ dashboard.name = "y" /\ dashboard.id = "1" /\ dashboard.title = "x"
    /\ dashboard.updated_at # "t0"

\* C8: when the request answered last was a successful update with body d and
\* a request with the same body has read the row that one wrote, its write
\* changes no column but updated_at.
C8_MergeIdempotent ==
    [][\A p \in Procs :
          /\ Writes(p)
          /\ last.route = "update_dashboard" /\ last.status = 200
          /\ last.args.data = data[p]
          /\ existing[p] = dashboard
          => \A f \in DOMAIN dashboard \ {"updated_at"} : dashboard'[f] = dashboard[f]]_vars

\* C8 witness: the body {title: y} was applied twice in succession, at two
\* times.
C8_Witness ==
    /\ last.route = "update_dashboard" /\ last.status = 200
    /\ last.args.again
    /\ last.args.data = [title |-> "y"]
    /\ dashboard.title = "y" /\ dashboard.updated_at = "t2"

\* C9: while dashboard has no row, no step creates one, and an update answered
\* then has an error status (400 past the gate) and has issued no update call.
C9_NoImplicitCreate ==
    [][dashboard = NoRow =>
          /\ dashboard' = NoRow
          /\ last' # last /\ last'.route = "update_dashboard"
             => /\ last'.status \in {400, 401, 422}
                /\ Accepted(last'.authorization) => last'.status = 400
                /\ ~Has(last'.calls, {"dashboard.update"})]_vars

\* C9 witness: an admin's update of a missing row was answered 400.
C9_Witness ==
    /\ last.route = "update_dashboard" /\ last.status = 400
    /\ Accepted(last.authorization)
    /\ last.args.data = [name |-> "y"]
    /\ dashboard = NoRow

\* C10: a write is never refused, whatever became of the row since it was
\* read: it is answered 200, sets the submitted allow-listed columns, and puts
\* back the value it read into each column it did not submit that another
\* request has changed since.
C10_LastWriteWins ==
    [][\A p \in Procs : Writes(p) =>
          /\ last'.status = 200
          /\ \A f \in allowed \cap DOMAIN data[p] : dashboard'[f] = data[p][f]
          /\ \A f \in DOMAIN dashboard \ (DOMAIN data[p] \cup {"updated_at"}) :
                dashboard[f] # existing[p][f]
                => dashboard'[f] = existing[p][f] /\ dashboard'[f] # dashboard[f]]_vars

\* C10 witness: the update {title: y} was written from a row read before
\* another request set name to y: name is x again.
C10_Witness ==
    /\ last.route = "update_dashboard" /\ last.status = 200
    /\ last.args.lost
    /\ last.args.data = [title |-> "y"]
    /\ dashboard.name = "x" /\ dashboard.title = "y"

====
